---------------------------- MODULE Spec2Model ----------------------------
(***************************************************************************)
(* cobot-cli: the booking history (src/cobot_cli/history.py) and the       *)
(* monitor_bookings command (src/cobot_cli/cli.py).                        *)
(*                                                                         *)
(* A history file is a text file.  Its content is modelled as the sequence *)
(* of lexemes of that text: the JSON punctuation, string and number        *)
(* literals, runs of blanks, and the line terminator.  json.dumps writes   *)
(* lexemes, json.loads parses them, a failed write leaves a prefix of      *)
(* them.                                                                   *)
(*                                                                         *)
(* Python values: a str is a TLA+ string, a list a sequence, a dict a      *)
(* function on its keys (a record).  An optional result is a tagged        *)
(* record, see NoneResult / Some / Raise.                                  *)
(***************************************************************************)
EXTENDS Integers, Sequences, FiniteSets, TLC

VARIABLES
    files,      \* data_dir: file name -> [exists, content] of that history file
    clock,      \* the wall clock, in hours
    ret,        \* SpecStore: the last history call, [op, rid, out]
    appended,   \* ghost: resource_id -> the bookings lists appended so far
    clean,      \* ghost: resource_id -> the file holds complete appended lines only
    tail,       \* ghost: resource_id -> "none" | "good" | "unterminated" | "bad", the last record
    healing,    \* ghost: resource_id -> the last write was a successful append
                \*        onto a history whose last record was bad
    nsaves,     \* the number of save_bookings calls so far
    ntorn,      \* the number of writes that failed after a part reached the file
    current,    \* SpecDiff: the arguments of the diff ...
    previous,
    now,        \* ... and the hour at which it runs
    cancelled,  \* SpecDiff: the result of find_cancelled_bookings
    new,        \* SpecDiff: the result of find_new_bookings
    dpc,        \* SpecDiff: "input" | "done"
    poll,       \* Spec: poller -> the locals of its monitor_bookings call
    report,     \* Spec: poller -> what its last monitor_bookings call put out
    npolls,     \* Spec: the number of monitor_bookings calls so far
    fetch,      \* SpecFetch: a call of fetch_bookings, [response, resource_id, out, pc]
    weekly      \* SpecTable: a call of create_weekly_table, [bookings, days, out, pc]

storeVars == <<files, clock, ret, appended, clean, tail, healing, nsaves, ntorn>>
diffVars == <<current, previous, now, cancelled, new, dpc>>
monitorVars == <<poll, report, npolls>>
pureVars == <<fetch, weekly>>
vars == <<storeVars, diffVars, monitorVars, pureVars>>

---------------------------------------------------------------------------
(* Text of a history file *)

Tok(t, v) == [t |-> t, v |-> v]
LBrace   == Tok("{", "")
RBrace   == Tok("}", "")
LBracket == Tok("[", "")
RBracket == Tok("]", "")
Colon    == Tok(":", "")
Comma    == Tok(",", "")
Str(s)   == Tok("str", s)
Num(s)   == Tok("num", s)
Null     == Tok("null", "")
Blank    == Tok("ws", "")      \* a run of spaces or tabs
NL       == Tok("nl", "")      \* "\n"
Junk     == Tok("junk", "")    \* characters that start no JSON lexeme

IsSpace(tok) == tok.t \in {"ws", "nl"}

Last(s) == s[Len(s)]
Front(s) == SubSeq(s, 1, Len(s) - 1)

---------------------------------------------------------------------------
(* json.dumps, for the values save_bookings writes *)

\* The members "k": v, "k": v of an object, from <<[k, toks], ...>>.
RECURSIVE DumpsMembers(_)
DumpsMembers(ms) ==
    IF ms = <<>> THEN <<>>
    ELSE <<Str(Head(ms).k), Colon>> \o Head(ms).toks
         \o (IF Len(ms) > 1 THEN <<Comma>> ELSE <<>>)
         \o DumpsMembers(Tail(ms))

\* The keys of dict d, in the order the API sends them.
KeysOf(d, order) == SelectSeq(order, LAMBDA k: k \in DOMAIN d)

dumps_attributes(a) ==
    LET ks == KeysOf(a, <<"id", "to">>)
    IN  <<LBrace>>
        \o DumpsMembers([i \in 1..Len(ks) |-> [k |-> ks[i], toks |-> <<Str(a[ks[i]])>>]])
        \o <<RBrace>>

\* {"resource": {"data": {"id": ...}}}
dumps_relationships(rel) ==
    <<LBrace, Str("resource"), Colon, LBrace, Str("data"), Colon,
      LBrace, Str("id"), Colon, Str(rel.resource.data.id), RBrace, RBrace, RBrace>>

dumps_booking(b) ==
    LET ks == KeysOf(b, <<"id", "attributes", "relationships">>)
    IN  <<LBrace>>
        \o DumpsMembers([i \in 1..Len(ks) |->
               [k |-> ks[i],
                toks |-> CASE ks[i] = "id" -> <<Str(b.id)>>
                           [] ks[i] = "attributes" -> dumps_attributes(b.attributes)
                           [] OTHER -> dumps_relationships(b.relationships)]])
        \o <<RBrace>>

RECURSIVE DumpsElems(_)
DumpsElems(bs) ==
    IF bs = <<>> THEN <<>>
    ELSE dumps_booking(Head(bs))
         \o (IF Len(bs) > 1 THEN <<Comma>> ELSE <<>>)
         \o DumpsElems(Tail(bs))

dumps_bookings(bs) == <<LBracket>> \o DumpsElems(bs) \o <<RBracket>>

\* json.dumps(entry) of save_bookings.
dumps_entry(entry) ==
    <<LBrace>>
    \o DumpsMembers(<<
         [k |-> "timestamp",   toks |-> <<Str(entry.timestamp)>>],
         [k |-> "space_id",    toks |-> <<Str(entry.space_id)>>],
         [k |-> "resource_id", toks |-> <<Str(entry.resource_id)>>],
         [k |-> "bookings",    toks |-> dumps_bookings(entry.bookings)] >>)
    \o <<RBrace>>

---------------------------------------------------------------------------
(* json.loads: a recursive-descent parse of the lexemes *)

PyNone == [py |-> "None"]
PyInt(s) == [py |-> "int", v |-> s]

ParseFail == [ok |-> FALSE]
Parsed(ty, val, next) == [ok |-> TRUE, ty |-> ty, val |-> val, next |-> next]

\* dict(pairs): a later duplicate key wins.
MkDict(pairs) ==
    [key \in {pairs[i].k : i \in 1..Len(pairs)} |->
        pairs[CHOOSE i \in 1..Len(pairs) :
                 /\ pairs[i].k = key
                 /\ \A j \in (i+1)..Len(pairs) : pairs[j].k # key].v]

RECURSIVE ParseValue(_, _), ParseElems(_, _, _), ParseMembers(_, _, _)

ParseValue(toks, i) ==
    IF i > Len(toks) THEN ParseFail
    ELSE CASE toks[i].t = "str"  -> Parsed("str", toks[i].v, i + 1)
           [] toks[i].t = "num"  -> Parsed("int", PyInt(toks[i].v), i + 1)
           [] toks[i].t = "null" -> Parsed("None", PyNone, i + 1)
           [] toks[i].t = "["    ->
                IF i + 1 <= Len(toks) /\ toks[i+1].t = "]"
                THEN Parsed("list", <<>>, i + 2)
                ELSE ParseElems(toks, i + 1, <<>>)
           [] toks[i].t = "{"    ->
                IF i + 1 <= Len(toks) /\ toks[i+1].t = "}"
                THEN Parsed("dict", MkDict(<<>>), i + 2)
                ELSE ParseMembers(toks, i + 1, <<>>)
           [] OTHER -> ParseFail

\* The elements of an array after "[" or ",", up to and including "]".
ParseElems(toks, i, acc) ==
    LET e == ParseValue(toks, i)
    IN  IF ~e.ok \/ e.next > Len(toks) THEN ParseFail
        ELSE CASE toks[e.next].t = "," -> ParseElems(toks, e.next + 1, Append(acc, e.val))
               [] toks[e.next].t = "]" -> Parsed("list", Append(acc, e.val), e.next + 1)
               [] OTHER -> ParseFail

\* The members of an object after "{" or ",", up to and including "}".
ParseMembers(toks, i, acc) ==
    IF i + 1 > Len(toks) \/ toks[i].t # "str" \/ toks[i+1].t # ":" THEN ParseFail
    ELSE LET e == ParseValue(toks, i + 2)
         IN  IF ~e.ok \/ e.next > Len(toks) THEN ParseFail
             ELSE LET acc2 == Append(acc, [k |-> toks[i].v, v |-> e.val])
                  IN  CASE toks[e.next].t = "," -> ParseMembers(toks, e.next + 1, acc2)
                        [] toks[e.next].t = "}" -> Parsed("dict", MkDict(acc2), e.next + 1)
                        [] OTHER -> ParseFail

\* json.loads(s): one value, blanks between lexemes ignored, nothing after it;
\* anything else is a JSONDecodeError (ok = FALSE).
json_loads(s) ==
    LET toks == SelectSeq(s, LAMBDA tok: ~IsSpace(tok))
        r    == ParseValue(toks, 1)
    IN  IF r.ok /\ r.next = Len(toks) + 1
        THEN [ok |-> TRUE, ty |-> r.ty, val |-> r.val]
        ELSE ParseFail

---------------------------------------------------------------------------
(* Results of a call *)

NoneResult == [kind |-> "None"]                  \* returns None
Some(v)    == [kind |-> "value", val |-> v]      \* returns v
Raise(e)   == [kind |-> "raise", exc |-> e]      \* raises e

---------------------------------------------------------------------------
(* Clock and settings *)

SpaceId == "space-1"                             \* settings.space_id
Resources == {"r1", "r2"}

\* One file for all the resources.
history_file_shared(resource_id) == "bookings_r1.jsonl"

\* os.path.join(data_dir, f"bookings_{resource_id}.jsonl"), under data_dir.
history_file(resource_id) ==
    CASE resource_id = "r1" -> "bookings_r1.jsonl"
      [] resource_id = "r2" -> "bookings_r2.jsonl"

\* The files of data_dir the calls can name.
HistoryFiles == {history_file(r) : r \in Resources}

\* datetime.now().isoformat(), the clock counting hours
isoformat(h) ==
    CASE h = 8  -> "2024-02-15T08:00:00"
      [] h = 9  -> "2024-02-15T09:00:00"
      [] h = 10 -> "2024-02-15T10:00:00"
      [] h = 11 -> "2024-02-15T11:00:00"
      [] h = 12 -> "2024-02-15T12:00:00"
      [] h = 13 -> "2024-02-15T13:00:00"
      [] OTHER  -> "2024-02-15T14:00:00"

---------------------------------------------------------------------------
(* history.py: save_bookings, get_last_bookings *)

NoFile == [exists |-> FALSE, content |-> <<>>]
File(content) == [exists |-> TRUE, content |-> content]

\* The text save_bookings writes: json.dumps(entry) + "\n".
EntryLine(bookings, resource_id, h) ==
    dumps_entry([timestamp   |-> isoformat(h),
                 space_id    |-> SpaceId,
                 resource_id |-> resource_id,
                 bookings    |-> bookings]) \o <<NL>>

\* What the storage does with the write: it succeeds, the open fails (the
\* directory or file cannot be created), or the write fails after
\* `written` lexemes of the text reached the file, any prefix of it short
\* of the whole: none, a part of the entry, or the entry without its "\n".
IoOk == [kind |-> "ok"]
IoOpenError == [kind |-> "open_error"]
IoWriteError(k) == [kind |-> "write_error", written |-> k]
IoOutcomes(text) ==
    {IoOk, IoOpenError} \cup {IoWriteError(k) : k \in 0..(Len(text) - 1)}

\* save_bookings opening the file with mode "w" instead of "a".
save_bookings_truncating(f, bookings, resource_id, h, io) ==
    LET text == EntryLine(bookings, resource_id, h)
    IN  CASE io.kind = "ok" ->
               [file |-> File(text), out |-> NoneResult]
          [] io.kind = "open_error" ->
               [file |-> f, out |-> Raise("OSError")]
          [] OTHER ->
               [file |-> File(SubSeq(text, 1, io.written)), out |-> Raise("OSError")]

\* save_bookings catching the OSError of open and write and returning.
save_bookings_swallowing(f, bookings, resource_id, h, io) ==
    LET text == EntryLine(bookings, resource_id, h)
    IN  CASE io.kind = "ok" ->
               [file |-> File(f.content \o text), out |-> NoneResult]
          [] io.kind = "open_error" ->
               [file |-> f, out |-> NoneResult]
          [] OTHER ->
               [file |-> File(f.content \o SubSeq(text, 1, io.written)),
                out  |-> NoneResult]

\* open(history_file, "a") ... f.write(text): [file, out].
save_bookings(f, bookings, resource_id, h, io) ==
    LET text == EntryLine(bookings, resource_id, h)
    IN  CASE io.kind = "ok" ->
               [file |-> File(f.content \o text), out |-> NoneResult]
          [] io.kind = "open_error" ->
               [file |-> f, out |-> Raise("OSError")]
          [] OTHER ->
               [file |-> File(f.content \o SubSeq(text, 1, io.written)),
                out  |-> Raise("OSError")]

\* `for line in f`: the lines of the text, each with its "\n", the last
\* one possibly without.
RECURSIVE SplitLines(_)
SplitLines(content) ==
    IF content = <<>> THEN <<>>
    ELSE LET nls == {i \in 1..Len(content) : content[i].t = "nl"}
             k   == IF nls = {} THEN Len(content)
                    ELSE CHOOSE i \in nls : \A j \in nls : i <= j
         IN  <<SubSeq(content, 1, k)>> \o SplitLines(SubSeq(content, k + 1, Len(content)))

\* line.strip()
RECURSIVE strip(_)
strip(line) ==
    IF line = <<>> THEN <<>>
    ELSE IF IsSpace(Head(line)) THEN strip(Tail(line))
    ELSE IF IsSpace(Last(line)) THEN strip(Front(line))
    ELSE line

\* get_last_bookings stopping at the first line of the file.
get_last_bookings_first_line(f) ==
    IF ~f.exists THEN NoneResult
    ELSE LET lines == SplitLines(f.content)
         IN  IF lines = <<>> THEN Raise("UnboundLocalError")
             ELSE LET entry == json_loads(strip(lines[1]))
                  IN  IF entry.ok /\ entry.ty = "dict" /\ "bookings" \in DOMAIN entry.val
                      THEN Some(entry.val.bookings)
                      ELSE NoneResult

get_last_bookings(f) ==
    IF ~f.exists THEN NoneResult
    ELSE LET lines == SplitLines(f.content)
         IN  IF lines = <<>> THEN Raise("UnboundLocalError")  \* last_entry never bound
             ELSE LET last_entry == strip(lines[Len(lines)])
                  IN  IF last_entry = <<>> THEN NoneResult
                      ELSE LET entry == json_loads(last_entry)
                           IN  IF ~entry.ok THEN NoneResult            \* JSONDecodeError
                               ELSE IF entry.ty # "dict"
                                    THEN Raise("TypeError")            \* entry["bookings"]
                               ELSE IF "bookings" \notin DOMAIN entry.val
                                    THEN NoneResult                    \* KeyError
                               ELSE Some(entry.val.bookings)

---------------------------------------------------------------------------
(* Booking records, as the API sends them *)

TEarly == "2024-02-15T09:00:00Z"
TMid   == "2024-02-15T11:00:00+01:00"
TLate  == "2024-02-15T12:00:00Z"

BkA     == [id |-> "a", attributes |-> [to |-> TLate]]
BkB     == [id |-> "b", attributes |-> [to |-> TEarly]]
BkAttrA == [attributes |-> [id |-> "a", to |-> TMid]]   \* identity in attributes.id
BkAnon1 == [attributes |-> [to |-> TLate]]              \* no identity
BkAnon2 == [attributes |-> [to |-> TMid]]               \* no identity
BkNoTo  == [id |-> "c", attributes |-> [id |-> "c"]]    \* no attributes.to

---------------------------------------------------------------------------
(* The state of the parts a specification does not use *)

NotRun == [kind |-> "not run"]
Pollers == {"p1", "p2"}
NoneId == "<None>"                    \* Python's None where a str is expected

\* The locals of monitor_bookings before it runs.
IdlePoll ==
    [pc |-> "idle", rid |-> NoneId, current_bookings |-> <<>>,
     previous_bookings |-> NotRun, cancelled |-> NotRun, new |-> NotRun,
     branch |-> "", exc |-> "",
     fetched |-> FALSE,               \* fetch_bookings has returned
     before |-> [f \in HistoryFiles |-> [exists |-> FALSE, content |-> <<>>]],
                                      \* the history files when the call began
     at |-> 0,                        \* the hour of the entry being written
     base |-> 0,                      \* the snapshots appended when it loaded
     latest |-> FALSE,                \* no fetch_bookings has returned since its own
     overlap |-> FALSE]               \* another call ran while this one did

\* Nothing printed, nothing sent.
NoReport ==
    [status |-> "none", shown |-> <<>>, cancelled |-> <<>>, new |-> <<>>,
     error |-> "", telegram |-> "none", delivery |-> "none",
     logged |-> FALSE, escaped |-> ""]

DiffUnused ==
    /\ current = <<>>
    /\ previous = <<>>
    /\ now = 9
    /\ cancelled = NotRun
    /\ new = NotRun
    /\ dpc = "unused"

StoreUnused ==
    /\ files = [f \in HistoryFiles |-> NoFile]
    /\ clock = 9
    /\ ret = [op |-> "none", rid |-> "", out |-> NoneResult]
    /\ appended = [r \in Resources |-> <<>>]
    /\ tail = [r \in Resources |-> "none"]
    /\ clean = [r \in Resources |-> TRUE]
    /\ healing = [r \in Resources |-> [on |-> FALSE, bookings |-> <<>>]]
    /\ nsaves = 0
    /\ ntorn = 0

\* No call of fetch_bookings or create_weekly_table on its own.
PureUnused ==
    /\ fetch = [response |-> [status |-> 200, data |-> <<>>], resource_id |-> NoneId,
                out |-> NotRun, pc |-> "unused"]
    /\ weekly = [bookings |-> <<>>, days |-> 0, out |-> NotRun, pc |-> "unused"]

MonitorUnused ==
    /\ poll = [p \in Pollers |-> IdlePoll]
    /\ report = [p \in Pollers |-> NoReport]
    /\ npolls = 0

---------------------------------------------------------------------------
(* history.py: find_cancelled_bookings, find_new_bookings *)

EmptyDict == <<>>

\* d.get(k, default)
dict_get(d, k, default) == IF k \in DOMAIN d THEN d[k] ELSE default

\* b.get("id") or b.get("attributes", {}).get("id")
booking_id(b) ==
    LET id == dict_get(b, "id", NoneId)
    IN  IF id # NoneId /\ id # ""
        THEN id
        ELSE dict_get(dict_get(b, "attributes", EmptyDict), "id", NoneId)

\* parser.parse(s): an aware datetime, [hour, utcoffset].
parser_parse(s) ==
    CASE s = TEarly -> [hour |-> 9,  utcoffset |-> 0]
      [] s = TMid   -> [hour |-> 11, utcoffset |-> 1]
      [] s = TLate  -> [hour |-> 12, utcoffset |-> 0]

\* datetime.now(tzutc()) at clock hour h.
now_utc(h) == [hour |-> h, utcoffset |-> 0]

\* end_time >= current_time instead of >.
ends_after_or_at(end_time, current_time) ==
    end_time.hour - end_time.utcoffset >= current_time.hour - current_time.utcoffset

\* end_time > current_time, of two aware datetimes: their instants compared.
ends_after(end_time, current_time) ==
    end_time.hour - end_time.utcoffset > current_time.hour - current_time.utcoffset

\* The loop skipping a record without attributes.to instead of failing.
RECURSIVE CancelledLoopSkipping(_, _, _, _, _)
CancelledLoopSkipping(previous_, i, current_ids, current_time, acc) ==
    IF i > Len(previous_) THEN Some(acc)
    ELSE LET booking == previous_[i]
             keep == /\ booking_id(booking) \notin current_ids
                     /\ "attributes" \in DOMAIN booking
                     /\ "to" \in DOMAIN booking.attributes
                     /\ ends_after(parser_parse(booking.attributes.to), current_time)
         IN  CancelledLoopSkipping(previous_, i + 1, current_ids, current_time,
                                   IF keep THEN Append(acc, booking) ELSE acc)

\* The loop over previous, from its i-th record on.
RECURSIVE CancelledLoop(_, _, _, _, _)
CancelledLoop(previous_, i, current_ids, current_time, acc) ==
    IF i > Len(previous_) THEN Some(acc)
    ELSE LET booking == previous_[i]
         IN  IF booking_id(booking) \notin current_ids
             THEN IF "attributes" \notin DOMAIN booking
                     \/ "to" \notin DOMAIN booking.attributes
                  THEN Raise("KeyError")
                  ELSE IF ends_after(parser_parse(booking.attributes.to), current_time)
                       THEN CancelledLoop(previous_, i + 1, current_ids, current_time,
                                          Append(acc, booking))
                       ELSE CancelledLoop(previous_, i + 1, current_ids, current_time, acc)
             ELSE CancelledLoop(previous_, i + 1, current_ids, current_time, acc)

\* find_cancelled_bookings with an empty set of identities of current.
find_cancelled_bookings_no_ids(current_, previous_, h) ==
    CancelledLoop(previous_, 1, {}, now_utc(h), <<>>)

find_cancelled_bookings(current_, previous_, h) ==
    LET current_ids == {booking_id(current_[i]) : i \in 1..Len(current_)}
    IN  CancelledLoop(previous_, 1, current_ids, now_utc(h), <<>>)

RECURSIVE NewLoop(_, _, _, _)
NewLoop(current_, i, previous_ids, acc) ==
    IF i > Len(current_) THEN Some(acc)
    ELSE IF booking_id(current_[i]) \notin previous_ids
         THEN NewLoop(current_, i + 1, previous_ids, Append(acc, current_[i]))
         ELSE NewLoop(current_, i + 1, previous_ids, acc)

\* find_new_bookings skipping a record it has already collected.
RECURSIVE NewLoopDedup(_, _, _, _)
NewLoopDedup(current_, i, previous_ids, acc) ==
    IF i > Len(current_) THEN Some(acc)
    ELSE IF booking_id(current_[i]) \notin previous_ids
            /\ \A j \in 1..Len(acc) : acc[j] # current_[i]
         THEN NewLoopDedup(current_, i + 1, previous_ids, Append(acc, current_[i]))
         ELSE NewLoopDedup(current_, i + 1, previous_ids, acc)

find_new_bookings_dedup(current_, previous_) ==
    NewLoopDedup(current_, 1, {booking_id(previous_[i]) : i \in 1..Len(previous_)}, <<>>)

\* find_new_bookings with its two arguments taken for each other.
find_new_bookings_swapped(current_, previous_) ==
    NewLoop(previous_, 1, {booking_id(current_[i]) : i \in 1..Len(current_)}, <<>>)

find_new_bookings(current_, previous_) ==
    LET previous_ids == {booking_id(previous_[i]) : i \in 1..Len(previous_)}
    IN  NewLoop(current_, 1, previous_ids, <<>>)

---------------------------------------------------------------------------
(* SpecDiff: the two diff functions applied to every pair of snapshots *)

MaxLen == 2

Bookings == {BkA, BkB, BkAttrA, BkAnon1, BkAnon2, BkNoTo}
BoundedSeq(S, n) == UNION {[1..k -> S] : k \in 0..n}
NowVals == {9, 10}

InitDiff ==
    /\ current \in BoundedSeq(Bookings, MaxLen)
    /\ previous \in BoundedSeq(Bookings, MaxLen)
    /\ now \in NowVals
    /\ cancelled = NotRun
    /\ new = NotRun
    /\ dpc = "input"
    /\ StoreUnused
    /\ MonitorUnused
    /\ PureUnused

ApplyDiff ==
    /\ dpc = "input"
    /\ cancelled' = find_cancelled_bookings(current, previous, now)
    /\ new' = find_new_bookings(current, previous)
    /\ dpc' = "done"
    /\ UNCHANGED <<current, previous, now, storeVars, monitorVars, pureVars>>

NextDiff == ApplyDiff

SpecDiff == InitDiff /\ [][NextDiff]_vars

---------------------------------------------------------------------------
(* SpecStore: calls of save_bookings and get_last_bookings *)

MaxSaves == 2

\* The bookings lists handed to save_bookings.
StoreInputs == {<<>>, <<BkA, BkAttrA>>}

\* What may lie in the data directory when the program starts: no file,
\* or a file left by something else.
PreExisting ==
    { NoFile,
      File(<<>>),                                        \* empty file
      File(<<Blank, NL>>),                               \* blank last line
      File(<<Junk, NL>>),                                \* not JSON
      File(<<LBracket, Num("1"), RBracket, NL>>),        \* JSON, not an object
      File(<<LBrace, Str("timestamp"), Colon, Str(isoformat(9)), RBrace, NL>>) }
                                                         \* object without bookings

NoCall == [op |-> "none", rid |-> "", out |-> NoneResult]
NotHealing == [on |-> FALSE, bookings |-> <<>>]

InitGhosts ==
    /\ appended = [r \in Resources |-> <<>>]
    /\ tail = [r \in Resources |-> IF files[history_file(r)].content = <<>> THEN "none" ELSE "bad"]
    /\ clean = [r \in Resources |-> files[history_file(r)].content = <<>>]
    /\ healing = [r \in Resources |-> NotHealing]
    /\ nsaves = 0
    /\ ntorn = 0

InitStore ==
    /\ \E f \in PreExisting : files = [hf \in HistoryFiles |-> IF hf = history_file("r1") THEN f ELSE NoFile]
    /\ clock = 9
    /\ ret = NoCall
    /\ InitGhosts
    /\ DiffUnused
    /\ MonitorUnused
    /\ PureUnused

\* The writes of a run that fail after a part reached the file.
MaxTorn == 1

\* The ghosts after save_bookings(bookings, r) met storage outcome io.  A
\* failed write that left the whole entry but its "\n" at the start of a
\* line leaves a last line json.loads accepts: the tail is "unterminated".
\* At most MaxTorn writes of a run leave a part of their text.
GhostsAfterSave(r, bookings, io) ==
    LET torn == io.kind = "write_error" /\ io.written >= 1
        whole == torn /\ io.written = Len(EntryLine(bookings, r, clock)) - 1
        before == files[history_file(r)].content
        begun == before = <<>> \/ Last(before).t = "nl"    \* the write begins a line
    IN  /\ appended' = IF io.kind = "ok"
                       THEN [appended EXCEPT ![r] = Append(@, bookings)]
                       ELSE appended
        /\ tail' = [tail EXCEPT ![r] = IF io.kind = "ok" THEN "good"
                                       ELSE IF whole /\ begun THEN "unterminated"
                                       ELSE IF torn THEN "bad" ELSE @]
        /\ clean' = [clean EXCEPT ![r] = @ /\ ~torn]
        /\ healing' = [healing EXCEPT ![r] =
                          IF io.kind = "ok"
                          THEN [on |-> tail[r] \in {"bad", "unterminated"}, bookings |-> bookings]
                          ELSE IF torn THEN NotHealing ELSE @]
        /\ nsaves' = nsaves + 1
        /\ torn => ntorn < MaxTorn
        /\ ntorn' = IF torn THEN ntorn + 1 ELSE ntorn

SaveBookings(r, bookings, io) ==
    /\ nsaves < MaxSaves
    /\ LET res == save_bookings(files[history_file(r)], bookings, r, clock, io)
       IN  /\ files' = [files EXCEPT ![history_file(r)] = res.file]
           /\ ret' = [op |-> "save_bookings", rid |-> r, out |-> res.out]
    /\ GhostsAfterSave(r, bookings, io)
    /\ clock' = clock + 1          \* an hour passes between two calls

GetLastBookings(r) ==
    /\ ret' = [op |-> "get_last_bookings", rid |-> r, out |-> get_last_bookings(files[history_file(r)])]
    /\ UNCHANGED <<files, clock, appended, clean, tail, healing, nsaves, ntorn>>

SaveBookingsCall ==
    /\ \E r \in Resources, bookings \in StoreInputs :
          \E io \in IoOutcomes(EntryLine(bookings, r, clock)) :
             SaveBookings(r, bookings, io)
    /\ UNCHANGED <<diffVars, monitorVars, pureVars>>

GetLastBookingsCall ==
    /\ \E r \in Resources : GetLastBookings(r)
    /\ UNCHANGED <<diffVars, monitorVars, pureVars>>

NextStore == SaveBookingsCall \/ GetLastBookingsCall

SpecStore == InitStore /\ [][NextStore]_vars

---------------------------------------------------------------------------
(* cli.py: fetch_bookings and monitor_bookings *)

\* Booking b as the API sends it for resource r.
AtResource(b, r) ==
    [k \in DOMAIN b \cup {"relationships"} |->
        IF k = "relationships" THEN [resource |-> [data |-> [id |-> r]]] ELSE b[k]]

Truthy(s) == s # NoneId /\ s # ""

\* fetch_bookings without the filter on the resource.
fetch_bookings_unfiltered(response, resource_id) ==
    IF response.status >= 400 THEN Raise("HTTPError")
    ELSE Some(response.data)

\* requests.get(...), raise_for_status(), response.json()["data"], the filter.
fetch_bookings(response, resource_id) ==
    IF response.status >= 400 THEN Raise("HTTPError")
    ELSE IF Truthy(resource_id)
         THEN Some(SelectSeq(response.data,
                             LAMBDA b : b.relationships.resource.data.id = resource_id))
         ELSE Some(response.data)

\* What the API answers to a poll.
ApiResponses ==
    { [status |-> 500, data |-> <<>>],
      [status |-> 200, data |-> <<>>],
      [status |-> 200, data |-> <<AtResource(BkA, "r1"), AtResource(BkB, "r2")>>],
      [status |-> 200, data |-> <<AtResource(BkNoTo, "r1"), AtResource(BkA, "r1")>>],
      [status |-> 200, data |-> <<AtResource(BkAttrA, "r1"), AtResource(BkAnon1, "r1")>>] }

MaxPolls == 3

\* settings.default_resource_id: no such key in the settings, or "".
NotConfigured == "<not configured>"
DefaultResourceIds == {NotConfigured, ""}

\* resource_id or settings.default_resource_id: the settings are read only
\* when resource_id is falsy, and reading a key they do not hold raises.
used_resource_id(resource_id, default_resource_id) ==
    IF Truthy(resource_id) THEN Some(resource_id)
    ELSE IF default_resource_id = NotConfigured THEN Raise("AttributeError")
    ELSE Some(default_resource_id)
ResourceArgs == {NoneId, "r1"}        \* --resource

\* monitor_bookings runs save_bookings before get_last_bookings.
next_step_save_first(step) ==
    CASE step = "fetch" -> "save"
      [] step = "save"  -> "load"
      [] step = "load"  -> "diff"

\* The order of the statements of monitor_bookings: fetch_bookings,
\* get_last_bookings, save_bookings, then the diff.
next_step(step) ==
    CASE step = "fetch" -> "load"
      [] step = "load"  -> "save"
      [] step = "save"  -> "diff"

\* `not previous_bookings`
is_first_run(previous_bookings) ==
    previous_bookings.kind = "None" \/ previous_bookings.val = <<>>

\* The tables and the log lines read attrs["to"] of every booking they show.
Presentable(bs) ==
    \A i \in 1..Len(bs) :
        "attributes" \in DOMAIN bs[i] /\ "to" \in DOMAIN bs[i].attributes

Raised(p, exc) == [poll EXCEPT ![p].pc = "except", ![p].exc = exc]
Returned(p) == [poll EXCEPT ![p].pc = "idle"]

\* The call starts: used_resource_id, and the return when there is none.
PollStart(p, resource_id, default_resource_id) ==
    /\ poll[p].pc = "idle"
    /\ npolls < MaxPolls
    /\ npolls' = npolls + 1
    /\ clock' = clock + 1             \* an hour passes between two polls
    /\ LET used == used_resource_id(resource_id, default_resource_id)
       IN  IF used.kind = "value" /\ ~Truthy(used.val)
           THEN /\ poll' = [poll EXCEPT ![p] = [IdlePoll EXCEPT !.before = files]]
                /\ report' = [report EXCEPT ![p] = [NoReport EXCEPT !.status = "no resource"]]
           ELSE /\ poll' = [q \in Pollers |->
                             IF q = p
                             THEN [IdlePoll EXCEPT
                                     !.pc = IF used.kind = "raise" THEN "except" ELSE "fetch",
                                     !.exc = IF used.kind = "raise" THEN used.exc ELSE "",
                                     !.rid = IF used.kind = "raise" THEN NoneId ELSE used.val,
                                     !.before = files,
                                     !.overlap = \E o \in Pollers \ {p} : poll[o].pc # "idle"]
                             ELSE IF poll[q].pc # "idle"
                                  THEN [poll[q] EXCEPT !.overlap = TRUE]
                                  ELSE poll[q]]
                /\ report' = [report EXCEPT ![p] = NoReport]
    /\ UNCHANGED <<files, ret, appended, clean, tail, healing, nsaves, ntorn>>

\* current_bookings = fetch_bookings(token, from_date, to_date, used_resource_id)
Fetch(p, response) ==
    /\ poll[p].pc = "fetch"
    /\ LET r == fetch_bookings(response, poll[p].rid)
       IN  poll' = IF r.kind = "raise" THEN Raised(p, r.exc)
                   ELSE [q \in Pollers |->
                           IF q = p
                           THEN [poll[p] EXCEPT !.current_bookings = r.val,
                                                !.fetched = TRUE,
                                                !.latest = TRUE,
                                                !.pc = next_step("fetch")]
                           ELSE [poll[q] EXCEPT !.latest = FALSE]]
    /\ UNCHANGED <<storeVars, report, npolls>>

\* previous_bookings = get_last_bookings(used_resource_id)
LoadPrevious(p) ==
    /\ poll[p].pc = "load"
    /\ LET r == get_last_bookings(files[history_file(poll[p].rid)])
       IN  poll' = IF r.kind = "raise" THEN Raised(p, r.exc)
                   ELSE [poll EXCEPT ![p].previous_bookings = r,
                                     ![p].base = Len(appended[poll[p].rid]),
                                     ![p].pc = next_step("load")]
    /\ UNCHANGED <<storeVars, report, npolls>>

\* save_bookings(current_bookings, used_resource_id)
PersistCurrent(p, io) ==
    /\ poll[p].pc = "save"
    /\ LET rid == poll[p].rid
           res == save_bookings(files[history_file(rid)], poll[p].current_bookings, rid, clock, io)
       IN  /\ files' = [files EXCEPT ![history_file(rid)] = res.file]
           /\ poll' = IF res.out.kind = "raise" THEN Raised(p, res.out.exc)
                      ELSE [poll EXCEPT ![p].pc = next_step("save")]
           /\ GhostsAfterSave(rid, poll[p].current_bookings, io)
    /\ UNCHANGED <<clock, ret, report, npolls>>

\* save_bookings as another process sees it, first part: the entry is built
\* and open(history_file, "a") creates the file when there is none, or fails.
PersistOpen(p, io) ==
    /\ poll[p].pc = "save"
    /\ io \in {IoOk, IoOpenError}
    /\ LET rid == poll[p].rid
           f == files[history_file(rid)]
       IN  IF io = IoOpenError
           THEN LET res == save_bookings(f, poll[p].current_bookings, rid, clock, io)
                IN  /\ files' = [files EXCEPT ![history_file(rid)] = res.file]
                    /\ poll' = IF res.out.kind = "raise" THEN Raised(p, res.out.exc)
                               ELSE [poll EXCEPT ![p].pc = next_step("save")]
                    /\ GhostsAfterSave(rid, poll[p].current_bookings, io)
           ELSE /\ files' = [files EXCEPT ![history_file(rid)] =
                                save_bookings(f, poll[p].current_bookings, rid, clock,
                                              IoWriteError(0)).file]
                /\ poll' = [poll EXCEPT ![p].pc = "write", ![p].at = clock]
                /\ UNCHANGED <<appended, clean, tail, healing, nsaves, ntorn>>
    /\ UNCHANGED <<clock, ret, report, npolls>>

\* save_bookings, second part: f.write(json.dumps(entry) + "\n") at the end
\* of the file as it is by then; the write succeeds, or it fails after a
\* part of the text reached the file.
PersistWrite(p, io) ==
    /\ poll[p].pc = "write"
    /\ io.kind \in {"ok", "write_error"}
    /\ LET rid == poll[p].rid
           res == save_bookings(files[history_file(rid)], poll[p].current_bookings, rid,
                                poll[p].at, io)
       IN  /\ files' = [files EXCEPT ![history_file(rid)] = res.file]
           /\ poll' = IF res.out.kind = "raise" THEN Raised(p, res.out.exc)
                      ELSE [poll EXCEPT ![p].pc = next_step("save")]
           /\ GhostsAfterSave(rid, poll[p].current_bookings, io)
    /\ UNCHANGED <<clock, ret, report, npolls>>

\* The first-run test, find_cancelled_bookings, find_new_bookings and the
\* no-changes test.
Diff(p) ==
    /\ poll[p].pc = "diff"
    /\ IF is_first_run(poll[p].previous_bookings)
       THEN poll' = [poll EXCEPT ![p].branch = "first run", ![p].pc = "present"]
       ELSE LET c == find_cancelled_bookings(poll[p].current_bookings,
                                            poll[p].previous_bookings.val, clock)
                n == find_new_bookings(poll[p].current_bookings,
                                       poll[p].previous_bookings.val)
            IN  IF c.kind = "raise"
                THEN poll' = [Raised(p, c.exc) EXCEPT ![p].cancelled = c]
                ELSE poll' = [poll EXCEPT
                                ![p].cancelled = c,
                                ![p].new = n,
                                ![p].branch = IF c.val = <<>> /\ n.val = <<>>
                                              THEN "no changes" ELSE "changes",
                                ![p].pc = "present"]
    /\ UNCHANGED <<storeVars, report, npolls>>

\* What the call prints: the first-run table, "No changes detected.", or
\* the log lines and the table of the changes.
Present(p) ==
    /\ poll[p].pc = "present"
    /\ CASE poll[p].branch = "first run" ->
              IF Presentable(poll[p].current_bookings)
              THEN /\ report' = [report EXCEPT ![p].status = "first run",
                                               ![p].shown = poll[p].current_bookings]
                   /\ poll' = Returned(p)
              ELSE /\ report' = [report EXCEPT ![p].status = "first run"]
                   /\ poll' = Raised(p, "KeyError")
         [] poll[p].branch = "no changes" ->
              /\ report' = [report EXCEPT ![p].status = "no changes"]
              /\ poll' = Returned(p)
         [] OTHER ->
              IF Presentable(poll[p].cancelled.val) /\ Presentable(poll[p].new.val)
              THEN /\ report' = [report EXCEPT ![p].status = "changes",
                                               ![p].cancelled = poll[p].cancelled.val,
                                               ![p].new = poll[p].new.val]
                   /\ poll' = [poll EXCEPT ![p].pc = "notify"]
              ELSE /\ UNCHANGED report
                   /\ poll' = Raised(p, "KeyError")
    /\ UNCHANGED <<storeVars, npolls>>

\* The settings and what Bot.send_message does with a message.
SendOutcomes == {"unconfigured", "delivered", "TelegramError", "RuntimeError"}

\* send_telegram_message: returns when the settings are missing, when the
\* message is sent and when the send raised a TelegramError, which it prints
\* and logs; any other exception of the send leaves it.
send_telegram_message(outcome) ==
    CASE outcome = "unconfigured"  -> [out |-> NoneResult, logged |-> FALSE]
      [] outcome = "delivered"     -> [out |-> NoneResult, logged |-> FALSE]
      [] outcome = "TelegramError" -> [out |-> NoneResult, logged |-> TRUE]
      [] OTHER                     -> [out |-> Raise(outcome), logged |-> FALSE]

\* asyncio.run(send_telegram_message(message)) with the changes.
Notify(p, outcome) ==
    /\ poll[p].pc = "notify"
    /\ LET s == send_telegram_message(outcome)
       IN  /\ report' = [report EXCEPT ![p].telegram = "changes",
                                       ![p].delivery = outcome,
                                       ![p].logged = s.logged]
           /\ poll' = IF s.out.kind = "raise" THEN Raised(p, s.out.exc)
                      ELSE Returned(p)
    /\ UNCHANGED <<storeVars, npolls>>

\* except HTTPError / except Exception: the error is printed.
Except(p) ==
    /\ poll[p].pc = "except"
    /\ report' = [report EXCEPT ![p].status = "error", ![p].error = poll[p].exc]
    /\ poll' = [poll EXCEPT ![p].pc = "except send"]
    /\ UNCHANGED <<storeVars, npolls>>

\* asyncio.run(send_telegram_message(error_message)) in the handler: the
\* call returns, or the exception of the send leaves it.
ExceptSend(p, outcome) ==
    /\ poll[p].pc = "except send"
    /\ LET s == send_telegram_message(outcome)
       IN  report' = [report EXCEPT
                        ![p].telegram = "error",
                        ![p].delivery = outcome,
                        ![p].logged = s.logged,
                        ![p].escaped = IF s.out.kind = "raise" THEN s.out.exc ELSE ""]
    /\ poll' = Returned(p)
    /\ UNCHANGED <<storeVars, npolls>>

PollStartStep(P) ==
    /\ \E p \in P, resource_id \in ResourceArgs, default_resource_id \in DefaultResourceIds :
          PollStart(p, resource_id, default_resource_id)
    /\ UNCHANGED <<diffVars, pureVars>>
FetchStep(P) ==
    /\ \E p \in P, response \in ApiResponses : Fetch(p, response)
    /\ UNCHANGED <<diffVars, pureVars>>
LoadPreviousStep(P) ==
    /\ \E p \in P : LoadPrevious(p)
    /\ UNCHANGED <<diffVars, pureVars>>
PersistCurrentStep(P) ==
    /\ \E p \in P :
          \E io \in IoOutcomes(EntryLine(poll[p].current_bookings, poll[p].rid, clock)) :
             PersistCurrent(p, io)
    /\ UNCHANGED <<diffVars, pureVars>>
DiffStep(P) ==
    /\ \E p \in P : Diff(p)
    /\ UNCHANGED <<diffVars, pureVars>>
PresentStep(P) ==
    /\ \E p \in P : Present(p)
    /\ UNCHANGED <<diffVars, pureVars>>
NotifyStep(P) ==
    /\ \E p \in P, outcome \in SendOutcomes : Notify(p, outcome)
    /\ UNCHANGED <<diffVars, pureVars>>
ExceptStep(P) ==
    /\ \E p \in P : Except(p)
    /\ UNCHANGED <<diffVars, pureVars>>
ExceptSendStep(P) ==
    /\ \E p \in P, outcome \in SendOutcomes : ExceptSend(p, outcome)
    /\ UNCHANGED <<diffVars, pureVars>>

\* One poller: no two calls of monitor_bookings overlap.
SinglePoller == {"p1"}

Init ==
    /\ files = [f \in HistoryFiles |-> NoFile]
    /\ clock = 8
    /\ ret = NoCall
    /\ InitGhosts
    /\ DiffUnused
    /\ MonitorUnused
    /\ PureUnused

Next ==
    \/ PollStartStep(SinglePoller)
    \/ FetchStep(SinglePoller)
    \/ LoadPreviousStep(SinglePoller)
    \/ PersistCurrentStep(SinglePoller)
    \/ DiffStep(SinglePoller)
    \/ PresentStep(SinglePoller)
    \/ NotifyStep(SinglePoller)
    \/ ExceptStep(SinglePoller)
    \/ ExceptSendStep(SinglePoller)

Spec == Init /\ [][Next]_vars

---------------------------------------------------------------------------
(* SpecConc: two pollers, whose calls of monitor_bookings may overlap *)

\* What the API answers to the pollers of resource r1.
ConcResponses ==
    { [status |-> 200, data |-> <<AtResource(BkA, "r1"), AtResource(BkB, "r1")>>],
      [status |-> 200, data |-> <<AtResource(BkB, "r1")>>] }

\* The history of r1 when the pollers start: none, or the one snapshot an
\* earlier call of monitor_bookings appended at 8:00.
ConcHistories == {<<>>, << <<AtResource(BkA, "r1")>> >>}

InitConc ==
    /\ \E h \in ConcHistories :
          /\ files = [f \in HistoryFiles |->
                        IF f = history_file("r1") /\ h # <<>>
                        THEN save_bookings(NoFile, h[1], "r1", 8, IoOk).file
                        ELSE NoFile]
          /\ appended = [r \in Resources |-> IF r = "r1" THEN h ELSE <<>>]
          /\ tail = [r \in Resources |-> IF r = "r1" /\ h # <<>> THEN "good" ELSE "none"]
    /\ clean = [r \in Resources |-> TRUE]
    /\ healing = [r \in Resources |-> NotHealing]
    /\ nsaves = 0
    /\ ntorn = 0
    /\ clock = 8
    /\ ret = NoCall
    /\ DiffUnused
    /\ MonitorUnused
    /\ PureUnused

\* The calls of the two pollers together.
MaxConcPolls == MaxPolls - 1

ConcPollStart ==
    /\ npolls < MaxConcPolls
    /\ \E p \in Pollers : PollStart(p, "r1", NotConfigured)
    /\ UNCHANGED <<diffVars, pureVars>>
ConcFetch ==
    /\ \E p \in Pollers, response \in ConcResponses : Fetch(p, response)
    /\ UNCHANGED <<diffVars, pureVars>>
ConcLoadPrevious == LoadPreviousStep(Pollers)
ConcPersistOpen ==
    /\ \E p \in Pollers, io \in {IoOk, IoOpenError} : PersistOpen(p, io)
    /\ UNCHANGED <<diffVars, pureVars>>
ConcPersistWrite ==
    /\ \E p \in Pollers :
          \E io \in IoOutcomes(EntryLine(poll[p].current_bookings, poll[p].rid, poll[p].at)) :
             PersistWrite(p, io)
    /\ UNCHANGED <<diffVars, pureVars>>
ConcDiff == DiffStep(Pollers)
ConcPresent == PresentStep(Pollers)
ConcNotify ==
    /\ \E p \in Pollers : Notify(p, "delivered")
    /\ UNCHANGED <<diffVars, pureVars>>
ConcExcept == ExceptStep(Pollers)
ConcExceptSend ==
    /\ \E p \in Pollers : ExceptSend(p, "delivered")
    /\ UNCHANGED <<diffVars, pureVars>>

NextConc ==
    \/ ConcPollStart
    \/ ConcFetch
    \/ ConcLoadPrevious
    \/ ConcPersistOpen
    \/ ConcPersistWrite
    \/ ConcDiff
    \/ ConcPresent
    \/ ConcNotify
    \/ ConcExcept
    \/ ConcExceptSend

SpecConc == InitConc /\ [][NextConc]_vars

---------------------------------------------------------------------------
(* SpecFetch: fetch_bookings applied to every response and resource_id *)

MaxResp == 3

\* The bookings of a response: two bookings, each at either resource.
FetchRecords == {AtResource(b, r) : b \in {BkA, BkB}, r \in Resources}

\* What the API answers: an error, or the bookings of the space.
FetchResponses ==
    {[status |-> 500, data |-> <<>>]}
       \cup {[status |-> 200, data |-> d] : d \in BoundedSeq(FetchRecords, MaxResp)}

\* resource_id: None (the default), "", a resource with bookings or without.
FetchArgs == {NoneId, "", "r1", "r2", "r3"}

InitFetch ==
    /\ \E response \in FetchResponses, resource_id \in FetchArgs :
          fetch = [response |-> response, resource_id |-> resource_id,
                   out |-> NotRun, pc |-> "input"]
    /\ weekly = [bookings |-> <<>>, days |-> 0, out |-> NotRun, pc |-> "unused"]
    /\ StoreUnused
    /\ DiffUnused
    /\ MonitorUnused

ApplyFetch ==
    /\ fetch.pc = "input"
    /\ fetch' = [fetch EXCEPT !.out = fetch_bookings(fetch.response, fetch.resource_id),
                              !.pc = "done"]
    /\ UNCHANGED <<storeVars, diffVars, monitorVars, weekly>>

NextFetch == ApplyFetch

SpecFetch == InitFetch /\ [][NextFetch]_vars

---------------------------------------------------------------------------
(* cli.py: create_weekly_table *)

\* parser.parse(attrs[...]).astimezone(): a local time, its date counted in
\* days from the date of from_date.
LocalTime(day, hour, minute) == [day |-> day, hour |-> hour, minute |-> minute]

\* The key of day_bookings.sort: bookings of one day, so the time of day.
SortKey(b) == b.attributes.from.hour * 60 + b.attributes.from.minute

\* list.sort(key=...): stable.
RECURSIVE SortByFrom(_)
SortByFrom(bs) ==
    IF bs = <<>> THEN <<>>
    ELSE LET rest == SortByFrom(Front(bs))
             b == Last(bs)
             n == Cardinality({i \in 1..Len(rest) : SortKey(rest[i]) <= SortKey(b)})
         IN  SubSeq(rest, 1, n) \o <<b>> \o SubSeq(rest, n + 1, Len(rest))

\* title.strip(), on the titles that occur: blanks only, blanks around a
\* word, and titles with no blank at either end.
title_strip(title) ==
    CASE title = " "         -> ""
      [] title = "  "        -> ""
      [] title = " Meeting " -> "Meeting"
      [] title = "Meeting "  -> "Meeting"
      [] title = " Meeting"  -> "Meeting"
      [] OTHER               -> title

\* format_booking_info(name, title): the name part and the title part of
\* the text, the title part "" when the text is the name alone.
format_booking_info(name, title) ==
    [name |-> IF name = "" \/ name = NoneId THEN "N/A" ELSE name,
     title |-> IF Truthy(title) /\ title_strip(title) # ""
               THEN title_strip(title) ELSE ""]

Min(S) == CHOOSE x \in S : \A y \in S : x <= y
Max(S) == CHOOSE x \in S : \A y \in S : x >= y

\* The label of a time slot, f"{hour:02d}:00 - {(hour+1):02d}:00", as the
\* two hours it prints, and int(time_slot.split(":")[0]).
time_slot_label(hour) == <<hour, hour + 1>>
slot_start_of(time_slot) == time_slot[1]

\* The texts of the cell of day day_idx in the row of time_slot.
RECURSIVE CellBookings(_, _, _, _)
CellBookings(day_bookings, i, time_slot, acc) ==
    IF i > Len(day_bookings) THEN acc
    ELSE LET attrs == day_bookings[i].attributes
             slot_start == slot_start_of(time_slot)
             slot_end == slot_start + 1
             booking_start_hour == attrs.from.hour
             booking_end_hour == attrs.to.hour
             cell_info == format_booking_info(attrs.name, attrs.title)
         IN  IF booking_start_hour < slot_end /\ booking_end_hour > slot_start
             THEN CellBookings(day_bookings, i + 1, time_slot,
                               Append(acc, [text |-> IF slot_start = booking_start_hour
                                                     THEN "info" ELSE "dashes",
                                            info |-> cell_info]))
             ELSE CellBookings(day_bookings, i + 1, time_slot, acc)

\* create_weekly_table(bookings, from_date, days): the rows of the table,
\* each with its time slot and, per day, the texts of its cell.
create_weekly_table(bookings, days) ==
    LET daily_bookings ==
            [d \in 0..(days - 1) |->
                SelectSeq(bookings, LAMBDA b : b.attributes.from.day = d)]
        shown == SelectSeq(bookings, LAMBDA b : b.attributes.from.day \in 0..(days - 1))
        start_hours == {shown[i].attributes.from.hour : i \in 1..Len(shown)}
        end_hours == {IF shown[i].attributes.to.minute > 0
                      THEN shown[i].attributes.to.hour
                      ELSE shown[i].attributes.to.hour - 1 : i \in 1..Len(shown)}
        min_hour == IF start_hours # {} THEN Min(start_hours) ELSE 0
        max_hour == IF end_hours # {} THEN Max(end_hours) ELSE 0
        n == IF max_hour + 2 > min_hour THEN max_hour + 2 - min_hour ELSE 0
    IN  [r \in 1..n |->
            LET time_slot == time_slot_label(min_hour + r - 1)
            IN  [time_slot |-> time_slot,
                 cells |-> [d \in 0..(days - 1) |->
                              CellBookings(SortByFrom(daily_bookings[d]), 1, time_slot, <<>>)]]]

---------------------------------------------------------------------------
(* SpecTable: create_weekly_table applied to every list of bookings *)

MaxWeekly == 2

\* The times of day of the bookings.
WeeklyTimes == {<<9, 0>>, <<9, 30>>, <<10, 0>>, <<10, 30>>}

\* The titles of the bookings: None, blanks only, a word in blanks.
WeeklyTitles == {NoneId, "  ", " Meeting "}

\* Bookings of one day that end after they start, on the first day from
\* from_date or the second.
WeeklyBookings ==
    {[attributes |->
        [name |-> name, title |-> title,
         from |-> LocalTime(day, ft[1][1], ft[1][2]),
         to |-> LocalTime(day, ft[2][1], ft[2][2])]] :
       name \in {"ann"}, title \in WeeklyTitles, day \in 0..1,
       ft \in {p \in WeeklyTimes \X WeeklyTimes :
                 p[2][1] * 60 + p[2][2] > p[1][1] * 60 + p[1][2]}}

InitTable ==
    /\ \E bookings \in BoundedSeq(WeeklyBookings, MaxWeekly), days \in 1..2 :
          weekly = [bookings |-> bookings, days |-> days, out |-> NotRun, pc |-> "input"]
    /\ fetch = [response |-> [status |-> 200, data |-> <<>>], resource_id |-> NoneId,
                out |-> NotRun, pc |-> "unused"]
    /\ StoreUnused
    /\ DiffUnused
    /\ MonitorUnused

ApplyTable ==
    /\ weekly.pc = "input"
    /\ weekly' = [weekly EXCEPT
                     !.out = Some(create_weekly_table(weekly.bookings, weekly.days)),
                     !.pc = "done"]
    /\ UNCHANGED <<storeVars, diffVars, monitorVars, fetch>>

NextTable == ApplyTable

SpecTable == InitTable /\ [][NextTable]_vars

---------------------------------------------------------------------------
(* Claims about the history *)

IsPrefix(s, t) == Len(s) <= Len(t) /\ SubSeq(t, 1, Len(s)) = s

\* The lines of a text that are terminated.
CompleteLines(content) == SelectSeq(SplitLines(content), LAMBDA line: Last(line).t = "nl")

\* C1: after N >= 1 successful save_bookings on a history that was absent or
\* empty, get_last_bookings returns the bookings of the N-th call, unmodified
\* and in the same order.
C1_LatestIsLastAppend ==
    \A r \in Resources :
        (clean[r] /\ appended[r] # <<>>) =>
            /\ get_last_bookings(files[history_file(r)]) = Some(Last(appended[r]))
            /\ (ret.op = "get_last_bookings" /\ ret.rid = r)
                  => ret.out = Some(Last(appended[r]))

C1_Witness ==
    /\ ret.op = "get_last_bookings"
    /\ clean[ret.rid]
    /\ Len(appended[ret.rid]) >= 2
    /\ appended[ret.rid][1] # Last(appended[ret.rid])
    /\ Last(appended[ret.rid]) # <<>>
    /\ ret.out = Some(Last(appended[ret.rid]))

\* C2: the history is append-only: a step of the program leaves the text
\* that was in a history file in place (so every line stays, unchanged, at
\* its position), never removes the file, and the number of its lines grows
\* only by a successful save_bookings, which adds exactly one line, the
\* entry, at the end.
C2_AppendOnly ==
    [][\A r \in Resources :
          /\ files[history_file(r)].exists => files'[history_file(r)].exists
          /\ IsPrefix(files[history_file(r)].content, files'[history_file(r)].content)
          /\ IsPrefix(CompleteLines(files[history_file(r)].content), CompleteLines(files'[history_file(r)].content))
          /\ IF appended'[r] # appended[r]
             THEN /\ Len(CompleteLines(files'[history_file(r)].content))
                       = Len(CompleteLines(files[history_file(r)].content)) + 1
                  /\ files'[history_file(r)].content
                       = files[history_file(r)].content \o EntryLine(Last(appended'[r]), r, clock)
             ELSE Len(CompleteLines(files'[history_file(r)].content))
                       = Len(CompleteLines(files[history_file(r)].content))
      ]_vars

C2_Witness ==
    /\ ret.op = "save_bookings"
    /\ ret.out = NoneResult
    /\ Len(CompleteLines(files[history_file(ret.rid)].content)) >= 2
    /\ Len(appended[ret.rid]) >= 2

\* C3: get_last_bookings never raises; it returns None when there is no
\* history file and whenever the last line of the file is not an entry
\* with a bookings field.
C3_GetLastNeverRaises ==
    ret.op = "get_last_bookings" =>
        /\ ret.out.kind # "raise"
        /\ tail[ret.rid] \notin {"good", "unterminated"} => ret.out = NoneResult

\* C4: when the last record of a history is corrupt or truncated, one more
\* successful save_bookings of bookings B makes get_last_bookings return B.
C4_SelfHealing ==
    \A r \in Resources :
        healing[r].on => get_last_bookings(files[history_file(r)]) = Some(healing[r].bookings)

---------------------------------------------------------------------------
(* Claims about the diff *)

\* The identity of a record: id, else attributes.id, else none.
IdentityOf(b) ==
    IF "id" \in DOMAIN b THEN b.id
    ELSE IF "attributes" \in DOMAIN b /\ "id" \in DOMAIN b.attributes THEN b.attributes.id
    ELSE NoneId

IdentitiesOf(s) == {IdentityOf(s[i]) : i \in 1..Len(s)}

HasEnd(b) == "attributes" \in DOMAIN b /\ "to" \in DOMAIN b.attributes

\* The end of a booking, as an hour UTC.
EndHour(b) ==
    LET t == parser_parse(b.attributes.to) IN t.hour - t.utcoffset

Occurs(b, s) == \E i \in 1..Len(s) : s[i] = b

\* C5: find_cancelled_bookings returns exactly the records of previous whose
\* identity is not among the identities of current and whose end is strictly
\* later than the instant of the call, in the order of previous, duplicates
\* kept.
C5_CancelledExactly ==
    (dpc = "done" /\ cancelled.kind = "value") =>
        cancelled.val =
            SelectSeq(previous, LAMBDA b : /\ IdentityOf(b) \notin IdentitiesOf(current)
                                           /\ HasEnd(b)
                                           /\ EndHour(b) > now)

\* previous holds a booking that ends at the very hour of the call, which is
\* left out, and a later one, which is returned.
C5_Witness ==
    /\ dpc = "done"
    /\ Len(previous) = 2
    /\ IdentitiesOf(previous) \cap IdentitiesOf(current) = {}
    /\ HasEnd(previous[1]) /\ EndHour(previous[1]) = now
    /\ HasEnd(previous[2]) /\ EndHour(previous[2]) > now
    /\ cancelled = Some(<<previous[2]>>)

\* C6: find_new_bookings returns exactly the records of current whose identity
\* is not among the identities of previous, whatever their end, in the order
\* of current, every occurrence of a duplicate on its own.
C6_NewExactly ==
    dpc = "done" =>
        new = Some(SelectSeq(current,
                             LAMBDA b : IdentityOf(b) \notin IdentitiesOf(previous)))

\* previous is empty and current holds twice a booking that has ended.
C6_Witness ==
    /\ dpc = "done"
    /\ previous = <<>>
    /\ Len(current) = 2
    /\ current[1] = current[2]
    /\ HasEnd(current[1]) /\ EndHour(current[1]) <= now
    /\ new = Some(current)

\* C7: the identity is id, else attributes.id, else undefined, and records
\* without identity do not match each other across snapshots: a record of
\* current without identity is not taken as known because previous holds
\* another record without identity, so it is returned as new; a record of
\* previous without identity that has not ended is not taken as still
\* present because current holds another one, so it is returned as cancelled.
C7_NoIdentityNeverMatches ==
    dpc = "done" =>
        /\ \A b \in Bookings : booking_id(b) = IdentityOf(b)
        /\ \A i \in 1..Len(current) :
              (IdentityOf(current[i]) = NoneId /\ ~Occurs(current[i], previous))
                  => Occurs(current[i], new.val)
        /\ cancelled.kind = "value" =>
              \A i \in 1..Len(previous) :
                 (/\ IdentityOf(previous[i]) = NoneId
                  /\ ~Occurs(previous[i], current)
                  /\ EndHour(previous[i]) > now)
                     => Occurs(previous[i], cancelled.val)

---------------------------------------------------------------------------
(* Claims about monitor_bookings *)

\* The call of poller p has returned.
Finished(p) == poll[p].pc = "idle" /\ report[p].status # "none"

\* C8: the new bookings are held back only when get_last_bookings returned
\* None; when it returned a snapshot, an empty one included, every booking
\* of the fetch whose identity is not in that snapshot is shown and
\* notified as new.
C8_FirstRunOnlyWhenAbsent ==
    \A p \in Pollers :
        (Finished(p) /\ report[p].status \in {"first run", "no changes", "changes"}) =>
            (poll[p].previous_bookings.kind = "value" =>
                \A i \in 1..Len(poll[p].current_bookings) :
                    IdentityOf(poll[p].current_bookings[i])
                          \notin IdentitiesOf(poll[p].previous_bookings.val)
                       => /\ report[p].status = "changes"
                          /\ Occurs(poll[p].current_bookings[i], report[p].new)
                          /\ report[p].telegram = "changes")

\* C9: a poll fetches, then loads the previous snapshot, then appends the
\* current one, then diffs: once poll k of a resource has appended, with
\* every earlier append whole, what it holds as previous is the snapshot
\* appended by poll k-1 (None for the first), never its own, and the diff
\* is the diff of its fetch against that snapshot.
C9_DiffAgainstPreAppendState ==
    \A p \in Pollers :
        (poll[p].pc \in {"diff", "present", "notify"} /\ clean[poll[p].rid]) =>
            LET h == appended[poll[p].rid]
                k == Len(h)
            IN  /\ k >= 1
                /\ h[k] = poll[p].current_bookings
                /\ poll[p].previous_bookings =
                      IF k >= 2 THEN Some(h[k-1]) ELSE NoneResult
                /\ poll[p].branch \in {"no changes", "changes"} =>
                      /\ k >= 2
                      /\ poll[p].cancelled = find_cancelled_bookings(h[k], h[k-1], clock)
                      /\ poll[p].new = find_new_bookings(h[k], h[k-1])

\* The second poll of a resource fetched something else than the first and
\* is about to show the changes.
C9_Witness ==
    \E p \in Pollers :
        /\ poll[p].pc = "present"
        /\ poll[p].branch = "changes"
        /\ clean[poll[p].rid]
        /\ Len(appended[poll[p].rid]) >= 2
        /\ appended[poll[p].rid][Len(appended[poll[p].rid]) - 1] # poll[p].current_bookings
        /\ poll[p].previous_bookings # Some(poll[p].current_bookings)

\* A record of previous that is tested for cancellation has no attributes.to.
MalformedTested(current_, previous_) ==
    \E i \in 1..Len(previous_) :
        /\ IdentityOf(previous_[i]) \notin IdentitiesOf(current_)
        /\ ~HasEnd(previous_[i])

\* C10: when the diff of a poll meets a record of previous that is tested
\* for cancellation and has no attributes.to, find_cancelled_bookings fails
\* as a whole (KeyError, no partial list), the poll reports no cancelled
\* and no new bookings but the error, and the snapshot of this poll, appended
\* before, is still the last of the history.
C10_MalformedRecordAbortsDiff ==
    \A p \in Pollers :
        (/\ poll[p].cancelled # NotRun
         /\ MalformedTested(poll[p].current_bookings, poll[p].previous_bookings.val)) =>
            /\ poll[p].cancelled = Raise("KeyError")
            /\ poll[p].new = NotRun
            /\ poll[p].pc \in {"except", "except send", "idle"}
            /\ report[p].cancelled = <<>> /\ report[p].new = <<>>
            /\ report[p].telegram # "changes"
            /\ Finished(p) => /\ report[p].status = "error"
                               /\ report[p].error = "KeyError"
            /\ appended[poll[p].rid] # <<>>
            /\ Last(appended[poll[p].rid]) = poll[p].current_bookings
            /\ clean[poll[p].rid] =>
                  get_last_bookings(files[history_file(poll[p].rid)]) = Some(poll[p].current_bookings)

C10_Witness ==
    \E p \in Pollers :
        /\ Finished(p)
        /\ report[p].error = "KeyError"
        /\ poll[p].cancelled = Raise("KeyError")
        /\ MalformedTested(poll[p].current_bookings, poll[p].previous_bookings.val)
        /\ Len(appended[poll[p].rid]) >= 2
        /\ get_last_bookings(files[history_file(poll[p].rid)]) = Some(poll[p].current_bookings)

\* C11: however the send of the notification fails, monitor_bookings
\* returns without an exception, the snapshot of the poll is still the last
\* of the history and the cancelled and new bookings have been shown.
C11_NotificationFailureNeverEscapes ==
    \A p \in Pollers :
        (Finished(p) /\ report[p].delivery \notin {"none", "unconfigured", "delivered"}) =>
            /\ report[p].escaped = ""
            /\ poll[p].cancelled.kind = "value" =>
                  /\ report[p].cancelled = poll[p].cancelled.val
                  /\ report[p].new = poll[p].new.val
                  /\ Last(appended[poll[p].rid]) = poll[p].current_bookings

\* C12: a call of monitor_bookings whose fetch succeeded has appended one
\* line, the snapshot of the fetched bookings, to the history of its
\* resource and nothing else, whatever branch it took, unless the write
\* itself failed; a call whose fetch failed or that had no resource id has
\* left every history file as it was.
C12_HistoryWrittenAfterSuccessfulFetch ==
    \A p \in Pollers :
        Finished(p) =>
            IF poll[p].fetched
            THEN poll[p].exc # "OSError" =>
                   /\ files[history_file(poll[p].rid)].exists
                   /\ files[history_file(poll[p].rid)].content =
                        poll[p].before[history_file(poll[p].rid)].content
                           \o EntryLine(poll[p].current_bookings, poll[p].rid, clock)
                   /\ \A r \in Resources \ {poll[p].rid} : files[history_file(r)] = poll[p].before[history_file(r)]
            ELSE files = poll[p].before

\* save_bookings has returned or raised in the running or last call of p.
SaveCalled(p) ==
    /\ poll[p].fetched
    /\ poll[p].previous_bookings # NotRun
    /\ poll[p].pc \notin {"save", "write"}

\* The line of the snapshot of p is whole behind what the history held.
WholeLineWritten(p) ==
    files[history_file(poll[p].rid)].content =
        poll[p].before[history_file(poll[p].rid)].content
           \o EntryLine(poll[p].current_bookings, poll[p].rid, clock)

\* C13: when the write of save_bookings fails, the OSError leaves
\* save_bookings (it does not return as if it had written, and it writes
\* no second time), and the call of monitor_bookings computes no diff and
\* shows no cancelled, new or current bookings, only the error.
C13_WriteFailurePropagates ==
    \A p \in Pollers :
        (SaveCalled(p) /\ ~WholeLineWritten(p)) =>
            /\ poll[p].exc = "OSError"
            /\ poll[p].pc \in {"except", "except send", "idle"}
            /\ poll[p].cancelled = NotRun /\ poll[p].new = NotRun
            /\ poll[p].branch = ""
            /\ report[p].cancelled = <<>> /\ report[p].new = <<>>
            /\ report[p].shown = <<>>
            /\ report[p].status \in {"none", "error"}
            /\ Finished(p) => report[p].error = "OSError"
            /\ IsPrefix(poll[p].before[history_file(poll[p].rid)].content, files[history_file(poll[p].rid)].content)
            /\ IsPrefix(files[history_file(poll[p].rid)].content,
                        poll[p].before[history_file(poll[p].rid)].content
                           \o EntryLine(poll[p].current_bookings, poll[p].rid, clock))

\* A write that broke off behind a history with a snapshot, whose diff
\* against the fetch would have shown changes.
C13_Witness ==
    \E p \in Pollers :
        /\ Finished(p)
        /\ SaveCalled(p) /\ ~WholeLineWritten(p)
        /\ report[p].error = "OSError"
        /\ poll[p].previous_bookings.kind = "value"
        /\ poll[p].previous_bookings.val # <<>>
        /\ find_new_bookings(poll[p].current_bookings, poll[p].previous_bookings.val)
              # Some(<<>>)
        /\ files[history_file(poll[p].rid)].content # poll[p].before[history_file(poll[p].rid)].content

---------------------------------------------------------------------------
(* Relations between the two diff functions *)

\* C14: whenever both functions return, no identity of a record returned by
\* find_cancelled_bookings(current, previous) is the identity of a record
\* returned by find_new_bookings(current, previous); the undefined identity
\* counts as an identity.
C14_CancelledNewDisjoint ==
    (dpc = "done" /\ cancelled.kind = "value" /\ new.kind = "value") =>
        IdentitiesOf(cancelled.val) \cap IdentitiesOf(new.val) = {}

\* Both results hold a record.
C14_Witness ==
    /\ dpc = "done"
    /\ cancelled.kind = "value" /\ cancelled.val # <<>>
    /\ new.kind = "value" /\ new.val # <<>>

\* No two records of s have the same identity.
UniqueIdentities(s) ==
    \A i, j \in 1..Len(s) : IdentityOf(s[i]) = IdentityOf(s[j]) => i = j

\* C15: for a snapshot X with unique identities, find_cancelled_bookings(X, X)
\* and find_new_bookings(X, X) both return the empty list, whatever the ends
\* of the records (missing ones included) and the instant of the call.
C15_DiffWithItselfIsEmpty ==
    (dpc = "done" /\ current = previous /\ UniqueIdentities(current)) =>
        /\ cancelled = Some(<<>>)
        /\ new = Some(<<>>)

\* A snapshot of two records diffed with itself, one ending after the
\* call, which would count as cancelled were it not in current, and one
\* without an end.
C15_Witness ==
    /\ dpc = "done"
    /\ current = previous
    /\ Len(current) >= 2
    /\ UniqueIdentities(current)
    /\ \E i \in 1..Len(current) : HasEnd(current[i]) /\ EndHour(current[i]) > now
    /\ \E i \in 1..Len(current) : ~HasEnd(current[i])

---------------------------------------------------------------------------
(* Histories of different resources *)

\* C16: the file of a history is named by the resource id alone, and a
\* save_bookings on one resource id leaves the file of every other
\* resource id, and what get_last_bookings returns for it, as they were.
C16_HistoriesPerResource ==
    [][nsaves' # nsaves =>
         \A r \in Resources \ {ret'.rid} :
            /\ history_file(r) # history_file(ret'.rid)
            /\ files'[history_file(r)] = files[history_file(r)]
            /\ get_last_bookings(files'[history_file(r)])
                  = get_last_bookings(files[history_file(r)])]_vars

\* save_bookings has just written to one resource while the history of
\* another holds a snapshot.
C16_Witness ==
    /\ ret.op = "save_bookings"
    /\ ret.out = NoneResult
    /\ \E r \in Resources \ {ret.rid} :
          /\ appended[r] # <<>>
          /\ get_last_bookings(files[history_file(r)]) = Some(Last(appended[r]))
          /\ Last(appended[r]) # Last(appended[ret.rid])

---------------------------------------------------------------------------
(* Claims about fetch_bookings *)

\* The bookings of data at resource rid, in the order of data.
RECURSIVE OfResource(_, _)
OfResource(data, rid) ==
    IF data = <<>> THEN <<>>
    ELSE (IF Head(data).relationships.resource.data.id = rid THEN <<Head(data)>> ELSE <<>>)
         \o OfResource(Tail(data), rid)

\* C17: on a successful response fetch_bookings with a resource_id returns
\* the bookings of the response at that resource, in the order of the
\* response, the empty list when there is none; without a resource_id it
\* returns the bookings of the response as they are.
C17_FetchFiltersByResource ==
    (fetch.pc = "done" /\ fetch.response.status < 400) =>
        fetch.out = IF fetch.resource_id \in Resources \cup {"r3"}
                    THEN Some(OfResource(fetch.response.data, fetch.resource_id))
                    ELSE Some(fetch.response.data)

\* A response with bookings at the resource asked for and at another one.
C17_Witness ==
    /\ fetch.pc = "done"
    /\ fetch.resource_id \in Resources
    /\ fetch.out.kind = "value"
    /\ fetch.out.val # <<>>
    /\ Len(fetch.out.val) < Len(fetch.response.data)

---------------------------------------------------------------------------
(* Claims about overlapping calls *)

\* save_bookings has returned in the running or last call of p.
Saved(p) == SaveCalled(p) /\ poll[p].exc # "OSError"

\* C18: the history of a resource is not locked, and calls that overlap
\* reach a state where both loaded the same previous snapshot and report
\* the same new booking, and where get_last_bookings returns another
\* snapshot than the one of the most recent fetch (C18_Witness, reached in
\* SpecConc).  With a single poller neither state is reachable: as long as
\* a call of monitor_bookings has run with no other call beside it, two
\* calls that saved to the same resource loaded different states of the
\* history, the later one the snapshot of the earlier, and the call with
\* the most recent fetch has its snapshot read back by get_last_bookings.
\* The premise keeps to calls whose save_bookings returned without an
\* error, which is less than the claim says.  Violated in Spec, where one
\* poller runs alone, and in SpecConc by one poller alone: the write of its
\* first call fails after a part of the line reached the file, its second
\* call saves, and get_last_bookings returns None (the run of C4).
C18_OnlyOverlappingCallsConflict ==
    \A p \in Pollers :
        (Saved(p) /\ ~poll[p].overlap) =>
            /\ \A q \in Pollers \ {p} :
                  (Saved(q) /\ ~poll[q].overlap /\ poll[q].rid = poll[p].rid) =>
                     /\ poll[p].base # poll[q].base
                     /\ poll[q].base = poll[p].base + 1 =>
                           poll[q].previous_bookings = Some(poll[p].current_bookings)
            /\ poll[p].latest =>
                  /\ appended[poll[p].rid] # <<>>
                  /\ Last(appended[poll[p].rid]) = poll[p].current_bookings
                  /\ get_last_bookings(files[history_file(poll[p].rid)])
                        = Some(poll[p].current_bookings)

\* Two calls on the same resource have returned: both loaded the same
\* previous snapshot and both reported the same new booking, and the last
\* snapshot of the history is not the one of the call that fetched last.
C18_Witness ==
    \E p \in Pollers : \E q \in Pollers \ {p} :
        /\ Finished(p) /\ Finished(q)
        /\ Saved(p) /\ Saved(q)
        /\ poll[p].rid = poll[q].rid
        /\ poll[p].overlap /\ poll[q].overlap
        /\ poll[p].base = poll[q].base
        /\ poll[p].previous_bookings = poll[q].previous_bookings
        /\ report[p].status = "changes" /\ report[q].status = "changes"
        /\ report[p].new # <<>> /\ report[p].new = report[q].new
        /\ poll[p].latest
        /\ poll[p].current_bookings # poll[q].current_bookings
        /\ get_last_bookings(files[history_file(poll[p].rid)])
              = Some(poll[q].current_bookings)

---------------------------------------------------------------------------
(* Claims about create_weekly_table *)

\* The hours of the day booking b occupies.
HoursOccupied(b) ==
    {h \in 0..23 :
        /\ h >= b.attributes.from.hour
        /\ h * 60 < b.attributes.to.hour * 60 + b.attributes.to.minute}

\* The row of the slot starting at hour h.
RowsOf(table, h) == {r \in 1..Len(table) : table[r].time_slot = <<h, h + 1>>}

\* C19: every booking that starts on a day of the table and ends after it
\* starts has its name in the column of its day, in the row of the slot of
\* its start hour, also when it ends within that hour, and the table has
\* a row for every hour the booking occupies.
C19_WeeklyTableShowsEveryBooking ==
    weekly.pc = "done" =>
        \A i \in 1..Len(weekly.bookings) :
            LET b == weekly.bookings[i]
                table == weekly.out.val
            IN  b.attributes.from.day \in 0..(weekly.days - 1) =>
                  /\ \A h \in HoursOccupied(b) : RowsOf(table, h) # {}
                  /\ \E r \in RowsOf(table, b.attributes.from.hour) :
                        Occurs([text |-> "info",
                                info |-> format_booking_info(b.attributes.name,
                                                             b.attributes.title)],
                               table[r].cells[b.attributes.from.day])

=============================================================================
